---- MODULE Spec2Model ----
(***************************************************************************)
(* business-finder (main.go): a sequential script that loads its           *)
(* configuration, makes sure a Notion database exists, and then, for each  *)
(* place type of a fixed list, pages through the Google Places nearby      *)
(* search, looks up the details of every place, maps it to a Business and  *)
(* inserts it into the Notion database unless a page with the same PlaceID *)
(* is already there.                                                       *)
(*                                                                         *)
(* The two remote services are part of the state (the Notion workspace) or *)
(* answer nondeterministically (the Places provider, and every request's   *)
(* success or failure).  main() is one function; it is cut into steps at   *)
(* its loop heads, and `pc` is the position of the single thread.          *)
(***************************************************************************)
EXTENDS Integers, Sequences, FiniteSets, TLC

(* ------------------------------ bounds -------------------------------- *)

\* how many entries of the fixed placeTypes list the model iterates over
MaxTypes == 2
\* the provider returns an empty continuation token on page MaxPages at the latest
MaxPages == 2
\* the largest number of results on one page
MaxResults == 2

(* ----------------------------- constants ------------------------------ *)

UNSET == "<unset>"
\* a database the workspace does not hold
NoDb == [exists |-> FALSE, pages |-> <<>>]
\* the zero value of Business
NoBusiness == [Name |-> "", Address |-> "", PlaceID |-> "", Type |-> <<>>,
               WebsiteStatus |-> "", Urgency |-> "", Contacted |-> "", URL |-> ""]
Nil == "nil"
Err == "error"

EnvVars == {"GOOGLE_PLACES_API_KEY", "NOTION_API_KEY", "NOTION_DATABASE_ID", "NOTION_PAGE_ID"}
RequiredVars == {"GOOGLE_PLACES_API_KEY", "NOTION_API_KEY", "NOTION_DATABASE_ID"}

\* the value a variable has when it is set to something
ValueOf(k) ==
  CASE k = "GOOGLE_PLACES_API_KEY" -> "places-key"
    [] k = "NOTION_API_KEY" -> "notion-key"
    [] k = "NOTION_DATABASE_ID" -> "db-configured"
    [] OTHER -> "page-parent"

\* an environment (the process's, or the contents of a .env file): each
\* variable is unset, set to the empty string, or set to its value
Envs == { e \in [EnvVars -> {UNSET, "", "places-key", "notion-key", "db-configured", "page-parent"}] :
            \A k \in EnvVars : e[k] \in {UNSET, "", ValueOf(k)} }

AllUnset == [k \in EnvVars |-> UNSET]
AllSet == [k \in EnvVars |-> ValueOf(k)]

ConfiguredDb == "db-configured"
\* the identifier the Notion service gives a database it creates
CreatedDb == "db-created"
DbIds == {ConfiguredDb, CreatedDb}

MapSearchPrefix == "https://www.google.com/maps/search/?api=1&query="

\* main.go:246-294: the head of the fixed list, of which main goes through
\* the first MaxTypes entries
AllPlaceTypes == <<"art_gallery", "bakery", "bank", "bar", "beauty_salon", "bicycle_store">>
placeTypes == SubSeq(AllPlaceTypes, 1, MaxTypes)

\* place summaries the provider can return in a nearby search
Places ==
  { [PlaceID |-> "p1", Name |-> "Harbour Cafe", FormattedAddress |-> "1 Quay St",
     Types |-> <<"cafe", "store">>],
    [PlaceID |-> "p2", Name |-> "Tide Gallery", FormattedAddress |-> "",
     Types |-> <<>>] }

\* the website field of a detail lookup
Websites == {"", "https://harbour.example"}

\* the continuation tokens the provider issues, one per page of a place type
Tokens == <<"A", "B", "C", "D", "E">>

RECURSIVE SeqsUpTo(_, _)
SeqsUpTo(S, n) ==
  IF n = 0 THEN {<<>>}
  ELSE LET shorter == SeqsUpTo(S, n - 1)
       IN shorter \cup { Append(s, x) : s \in {t \in shorter : Len(t) = n - 1}, x \in S }

VARIABLES
  dotenv,     \* the .env file in the working directory: [present, vars]
  procEnv,    \* the process environment
  notion,     \* the Notion workspace: database id -> [exists, pages]
  pc,         \* position of main()
  exitMsg,    \* the message of the log.Fatal that ended the process, if any
  apiKey,     \* main's apiKey
  nc,         \* the NotionClient: [databaseID, pageID]
  typeIdx,    \* index of the outer range loop over placeTypes
  req,        \* the NearbySearchRequest of the current place type: [Type, PageToken]
  pageCount,  \* main's pageCount
  places,     \* the last nearby-search response: [Results, NextPageToken]
  placeIdx,   \* index of the inner range loop over places.Results
  tokens,     \* the continuation tokens returned so far for the current place type
  last        \* what the last step of main did (requests issued and their outcomes)

vars == <<dotenv, procEnv, notion, pc, exitMsg, apiKey, nc, typeIdx, req, pageCount,
          places, placeIdx, tokens, last>>

(* ------------------------------ helpers -------------------------------- *)

\* os.Getenv: the empty string for a variable that is not set
Getenv(env, k) == IF env[k] = UNSET THEN "" ELSE env[k]

\* godotenv.Overload for godotenv.Load: the file's keys replace the environment's
LoadDotenvOverload(env, file) == [k \in EnvVars |-> IF file[k] # UNSET THEN file[k] ELSE env[k]]

\* godotenv.Load: every key of the file that the process environment does not
\* already hold (even with an empty value) is set from the file
LoadDotenv(env, file) == [k \in EnvVars |-> IF env[k] # UNSET THEN env[k] ELSE file[k]]

NewNotionClient(databaseID, pageID) == [databaseID |-> databaseID, pageID |-> pageID]

NoStep == [op |-> "none", place |-> "", detailsErr |-> Nil, website |-> "",
           mapped |-> FALSE, business |-> NoBusiness, queried |-> FALSE, exists |-> FALSE,
           queryErr |-> Nil, createIssued |-> FALSE, target |-> "", err |-> Nil]

Step(op, err) == [NoStep EXCEPT !.op = op, !.err = err]

(* ------------------------------ initial -------------------------------- *)

InitRest ==
  /\ pc = "start"
  /\ exitMsg = ""
  /\ apiKey = ""
  /\ nc = NewNotionClient("", "")
  /\ typeIdx = 0
  /\ req = [Type |-> "", PageToken |-> ""]
  /\ pageCount = 0
  /\ places = [Results |-> <<>>, NextPageToken |-> ""]
  /\ placeIdx = 0
  /\ tokens = <<>>
  /\ last = NoStep

(* ------------------------- the record mapper ---------------------------- *)

\* MapBusiness without lines 357-359: a business without a website keeps URL ""
MapBusinessNoLink(place, details) ==
  LET hasSite == details.Website # ""
  IN [Name |-> place.Name,
      Address |-> place.FormattedAddress,
      PlaceID |-> place.PlaceID,
      Type |-> IF Len(place.Types) > 0 THEN place.Types ELSE <<"Other">>,
      WebsiteStatus |-> IF hasSite THEN "Has Website" ELSE "No Website",
      Urgency |-> IF hasSite THEN "Medium" ELSE "High",
      Contacted |-> "Not Contacted",
      URL |-> IF hasSite THEN details.Website ELSE ""]

\* MapBusiness without lines 343-345: the provider's list is taken as it is
MapBusinessNoDefault(place, details) ==
  LET hasSite == details.Website # ""
  IN [Name |-> place.Name,
      Address |-> place.FormattedAddress,
      PlaceID |-> place.PlaceID,
      Type |-> place.Types,
      WebsiteStatus |-> IF hasSite THEN "Has Website" ELSE "No Website",
      Urgency |-> IF hasSite THEN "Medium" ELSE "High",
      Contacted |-> "Not Contacted",
      URL |-> IF hasSite THEN details.Website
              ELSE MapSearchPrefix \o place.FormattedAddress]

\* main.go:332-359: the Business built from a place summary and its details
MapBusiness(place, details) ==
  LET hasSite == details.Website # ""
      websiteStatus == IF hasSite THEN "Has Website" ELSE "No Website"
      urgency == IF hasSite THEN "Medium" ELSE "High"
      url == IF hasSite THEN details.Website ELSE ""
      businessType == IF Len(place.Types) > 0 THEN place.Types ELSE <<"Other">>
      business == [Name |-> place.Name,
                   Address |-> place.FormattedAddress,
                   PlaceID |-> place.PlaceID,
                   Type |-> businessType,
                   WebsiteStatus |-> websiteStatus,
                   Urgency |-> urgency,
                   Contacted |-> "Not Contacted",
                   URL |-> url]
  IN IF business.WebsiteStatus = "No Website"
     THEN [business EXCEPT !.URL = MapSearchPrefix \o business.Address]
     ELSE business

(* ----------------------- the Notion client ------------------------------ *)

\* main.go:147-206: the properties of the page-creation request
PageCreateRequest(business) ==
  [Name |-> business.Name,
   Address |-> business.Address,
   PlaceID |-> business.PlaceID,
   Type |-> [i \in 1..Len(business.Type) |-> [Name |-> business.Type[i]]],
   WebsiteStatus |-> business.WebsiteStatus,
   Urgency |-> business.Urgency,
   Contacted |-> business.Contacted,
   URL |-> business.URL]

\* the pages of a database whose PlaceID rich-text property equals placeID
QueryResults(pages, placeID) == SelectSeq(pages, LAMBDA p : p.PlaceID = placeID)

\* main.go:44-48: any error of Database.Get means "absent"
CheckDatabaseExists(client, workspace, getOk) ==
  getOk /\ workspace[client.databaseID].exists

\* CreateDatabase without line 113: the client keeps the configured identifier
CreateDatabaseNoAdopt(client, workspace, createOk) ==
  IF createOk
  THEN [outcome |-> "returned",
        nc |-> client,
        notion |-> [workspace EXCEPT ![CreatedDb] = [exists |-> TRUE, pages |-> <<>>]],
        err |-> Nil]
  ELSE [outcome |-> "panic", nc |-> client, notion |-> workspace, err |-> Err]

\* main.go:51-115.  Database.Create returns a nil database with its error, and
\* line 113 reads db.ID before the error is looked at: a failed request ends
\* in a nil-pointer panic inside CreateDatabase.
CreateDatabase(client, workspace, createOk) ==
  IF createOk
  THEN [outcome |-> "returned",
        nc |-> [client EXCEPT !.databaseID = CreatedDb],
        notion |-> [workspace EXCEPT ![CreatedDb] = [exists |-> TRUE, pages |-> <<>>]],
        err |-> Nil]
  ELSE [outcome |-> "panic", nc |-> client, notion |-> workspace, err |-> Err]

\* BusinessExists with "> 1" for "> 0" on line 133
BusinessExistsOffByOne(client, workspace, placeID, queryOk) ==
  IF ~queryOk \/ ~workspace[client.databaseID].exists
  THEN [exists |-> FALSE, err |-> Err]
  ELSE [exists |-> Len(QueryResults(workspace[client.databaseID].pages, placeID)) > 1,
        err |-> Nil]

\* main.go:118-134
BusinessExists(client, workspace, placeID, queryOk) ==
  IF ~queryOk \/ ~workspace[client.databaseID].exists
  THEN [exists |-> FALSE, err |-> Err]
  ELSE [exists |-> Len(QueryResults(workspace[client.databaseID].pages, placeID)) > 0,
        err |-> Nil]

\* InsertBusiness without lines 142-145: the query's answer is not looked at
InsertBusinessNoSkip(client, workspace, business, queryOk, createOk) ==
  LET q == BusinessExists(client, workspace, business.PlaceID, queryOk)
      untouched == [notion |-> workspace, exists |-> q.exists, queryErr |-> q.err,
                    createIssued |-> FALSE, err |-> Nil]
  IN IF q.err # Nil THEN [untouched EXCEPT !.err = q.err]
     ELSE IF createOk
          THEN [untouched EXCEPT
                  !.notion = [workspace EXCEPT ![client.databaseID].pages =
                                Append(@, PageCreateRequest(business))],
                  !.createIssued = TRUE]
          ELSE [untouched EXCEPT !.createIssued = TRUE, !.err = Err]

\* main.go:136-210
InsertBusiness(client, workspace, business, queryOk, createOk) ==
  LET q == BusinessExists(client, workspace, business.PlaceID, queryOk)
      untouched == [notion |-> workspace, exists |-> q.exists, queryErr |-> q.err,
                    createIssued |-> FALSE, err |-> Nil]
  IN IF q.err # Nil THEN [untouched EXCEPT !.err = q.err]
     ELSE IF q.exists THEN untouched
     ELSE IF createOk
          THEN [untouched EXCEPT
                  !.notion = [workspace EXCEPT ![client.databaseID].pages =
                                Append(@, PageCreateRequest(business))],
                  !.createIssued = TRUE]
          ELSE [untouched EXCEPT !.createIssued = TRUE, !.err = Err]

(* --------------------------- steps of main ------------------------------ *)

\* main.go:213-225: the log.Fatal message startup ends with, "" when it goes on.
\* `file` is the .env file, `env` the process environment before godotenv.Load.
ConfigError(file, env) ==
  LET loaded == LoadDotenv(env, file.vars)
  IN IF ~file.present THEN "Error loading .env file"
     ELSE IF Getenv(loaded, "GOOGLE_PLACES_API_KEY") = ""
          THEN "GOOGLE_PLACES_API_KEY must be set"
     ELSE IF Getenv(loaded, "NOTION_API_KEY") = "" \/ Getenv(loaded, "NOTION_DATABASE_ID") = ""
          THEN "NOTION_API_KEY and NOTION_DATABASE_ID must be set"
     ELSE ""

\* main.go:213-229
LoadConfig ==
  /\ pc = "start"
  /\ LET msg == ConfigError(dotenv, procEnv)
         loaded == LoadDotenv(procEnv, dotenv.vars)
     IN IF msg # ""
        THEN /\ pc' = "fatal"
             /\ exitMsg' = msg
             /\ procEnv' = IF dotenv.present THEN loaded ELSE procEnv
             /\ last' = Step("config", Err)
             /\ UNCHANGED <<apiKey, nc>>
        ELSE /\ pc' = "checkdb"
             /\ procEnv' = loaded
             /\ apiKey' = Getenv(loaded, "GOOGLE_PLACES_API_KEY")
             /\ nc' = NewNotionClient(Getenv(loaded, "NOTION_DATABASE_ID"),
                                      Getenv(loaded, "NOTION_PAGE_ID"))
             /\ last' = Step("config", Nil)
             /\ UNCHANGED exitMsg
  /\ UNCHANGED <<dotenv, notion, typeIdx, req, pageCount, places, placeIdx, tokens>>

\* main.go:231-238.  The log.Fatalf of lines 235-237 needs CreateDatabase to
\* return an error, which it never does: a failed request panics inside it.
EnsureDatabase ==
  /\ pc = "checkdb"
  /\ \E getOk \in BOOLEAN, createOk \in BOOLEAN :
       IF CheckDatabaseExists(nc, notion, getOk)
       THEN /\ pc' = "mapsclient"
            /\ last' = Step("checkdb", Nil)
            /\ UNCHANGED <<nc, notion, exitMsg>>
       ELSE LET r == CreateDatabase(nc, notion, createOk)
            IN /\ nc' = r.nc
               /\ notion' = r.notion
               /\ last' = [Step("createdb", r.err) EXCEPT !.target = r.nc.databaseID]
               /\ IF r.outcome = "panic"
                  THEN pc' = "panic" /\ UNCHANGED exitMsg
                  ELSE IF r.err # Nil
                       THEN pc' = "fatal" /\ exitMsg' = "Failed to create Notion database"
                       ELSE pc' = "mapsclient" /\ UNCHANGED exitMsg
  /\ UNCHANGED <<dotenv, procEnv, apiKey, typeIdx, req, pageCount, places, placeIdx, tokens>>

\* main.go:240-244
NewMapsClient ==
  /\ pc = "mapsclient"
  /\ \E ok \in BOOLEAN :
       IF ok
       THEN pc' = "type" /\ typeIdx' = 1 /\ last' = Step("mapsclient", Nil)
            /\ UNCHANGED exitMsg
       ELSE pc' = "fatal" /\ exitMsg' = "Failed to create Google Maps client"
            /\ last' = Step("mapsclient", Err) /\ UNCHANGED typeIdx
  /\ UNCHANGED <<dotenv, procEnv, notion, apiKey, nc, req, pageCount, places, placeIdx, tokens>>

\* the request built once, before the loop over placeTypes, and reused
NearbySearchRequestReused(placeType) == [req EXCEPT !.Type = placeType]

\* main.go:299-306: the request a place type starts with
NearbySearchRequest(placeType) == [Type |-> placeType, PageToken |-> ""]

\* main.go:296-308: the head of the range loop over placeTypes
NextPlaceType ==
  /\ pc = "type"
  /\ IF typeIdx > Len(placeTypes)
     THEN pc' = "done" /\ last' = Step("return", Nil)
          /\ UNCHANGED <<req, pageCount, tokens>>
     ELSE /\ pc' = "fetch"
          /\ req' = NearbySearchRequest(placeTypes[typeIdx])
          /\ pageCount' = 0
          /\ tokens' = <<>>
          /\ last' = Step("type", Nil)
  /\ UNCHANGED <<dotenv, procEnv, notion, exitMsg, apiKey, nc, typeIdx, places, placeIdx>>

\* what the provider can answer to the n-th page request of a place type
SearchResponses(n) ==
  { [Results |-> rs, NextPageToken |-> t] :
      rs \in SeqsUpTo(Places, MaxResults),
      t \in IF n < MaxPages THEN {Tokens[n], ""} ELSE {""} }

\* main.go:314-317: where main goes when NearbySearch fails (the break)
AfterSearchError(idx) == [pc |-> "type", typeIdx |-> idx + 1]

\* main.go:309-319
FetchPage ==
  /\ pc = "fetch"
  /\ pageCount' = pageCount + 1
  /\ \/ \* NearbySearch fails
        /\ pc' = AfterSearchError(typeIdx).pc
        /\ typeIdx' = AfterSearchError(typeIdx).typeIdx
        /\ last' = Step("search", Err)
        /\ UNCHANGED <<places, placeIdx, tokens>>
     \/ \E resp \in SearchResponses(pageCount + 1) :
          /\ places' = resp
          /\ placeIdx' = 1
          /\ tokens' = Append(tokens, resp.NextPageToken)
          /\ pc' = IF Len(resp.Results) = 0 THEN "token" ELSE "places"
          /\ last' = Step("search", Nil)
          /\ UNCHANGED typeIdx
  /\ UNCHANGED <<dotenv, procEnv, notion, exitMsg, apiKey, nc, req>>

\* ProcessOne without the continue of line 329: the zero-value details are mapped
ProcessOneNoContinue(client, workspace, place, detailsOk, website, queryOk, createOk) ==
  LET business == MapBusiness(place, [Website |-> IF detailsOk THEN website ELSE ""])
      r == InsertBusiness(client, workspace, business, queryOk, createOk)
  IN [notion |-> r.notion,
      last |-> [op |-> "place", place |-> place.PlaceID,
                detailsErr |-> IF detailsOk THEN Nil ELSE Err,
                website |-> website, mapped |-> TRUE, business |-> business,
                queried |-> TRUE, exists |-> r.exists, queryErr |-> r.queryErr,
                createIssued |-> r.createIssued,
                target |-> client.databaseID, err |-> r.err]]

\* main.go:321-367: one iteration of the range loop over places.Results
ProcessOne(client, workspace, place, detailsOk, website, queryOk, createOk) ==
  IF ~detailsOk
  THEN [notion |-> workspace,
        last |-> [Step("place", Nil) EXCEPT !.place = place.PlaceID, !.detailsErr = Err]]
  ELSE LET business == MapBusiness(place, [Website |-> website])
           r == InsertBusiness(client, workspace, business, queryOk, createOk)
       IN [notion |-> r.notion,
           last |-> [op |-> "place", place |-> place.PlaceID, detailsErr |-> Nil,
                     website |-> website, mapped |-> TRUE, business |-> business,
                     queried |-> TRUE, exists |-> r.exists, queryErr |-> r.queryErr,
                     createIssued |-> r.createIssued,
                     target |-> client.databaseID, err |-> r.err]]

\* how the three requests of one iteration can turn out; a request that is
\* not reached has no outcome of its own
PlaceOutcomes ==
  { o \in [detailsOk : BOOLEAN, website : Websites, queryOk : BOOLEAN, createOk : BOOLEAN] :
      /\ ~o.detailsOk => (o.website = "" /\ o.queryOk)
      /\ ~o.queryOk => o.createOk }

ProcessPlace ==
  /\ pc = "places"
  /\ placeIdx <= Len(places.Results)
  /\ \E o \in PlaceOutcomes :
       LET r == ProcessOne(nc, notion, places.Results[placeIdx],
                           o.detailsOk, o.website, o.queryOk, o.createOk)
       IN notion' = r.notion /\ last' = r.last
  /\ placeIdx' = placeIdx + 1
  /\ pc' = IF placeIdx = Len(places.Results) THEN "token" ELSE "places"
  /\ UNCHANGED <<dotenv, procEnv, exitMsg, apiKey, nc, typeIdx, req, pageCount, places, tokens>>

\* MorePages that also gives up on a page without results
MorePagesIfResults(resp) == resp.NextPageToken # "" /\ Len(resp.Results) > 0

\* main.go:370: whether the response names a further page
MorePages(resp) == resp.NextPageToken # ""

\* main.go:370-377 (the five-second sleep takes no part in the state)
NextPage ==
  /\ pc = "token"
  /\ IF MorePages(places)
     THEN /\ req' = [req EXCEPT !.PageToken = places.NextPageToken]
          /\ pc' = "fetch"
          /\ last' = Step("more", Nil)
          /\ UNCHANGED typeIdx
     ELSE /\ pc' = "type"
          /\ typeIdx' = typeIdx + 1
          /\ last' = Step("nomore", Nil)
          /\ UNCHANGED req
  /\ UNCHANGED <<dotenv, procEnv, notion, exitMsg, apiKey, nc, pageCount, places, placeIdx, tokens>>

(* --------------------------- specifications ----------------------------- *)

\* a page as an earlier run of the program left it
ExistingPage(place) == PageCreateRequest(MapBusiness(place, [Website |-> ""]))

\* Notion workspaces the program can start against: the configured database is
\* absent, or holds at most one page per PlaceID
Workspaces ==
  { [d \in DbIds |-> IF d = ConfiguredDb THEN c ELSE NoDb] :
      c \in {NoDb} \cup { [exists |-> TRUE, pages |-> ps] :
                            ps \in {<<>>} \cup { <<ExistingPage(p)>> :
                                                     p \in {q \in Places : q.Types # <<>>} } } }

\* the configurations the full run is explored from
RunConfigs ==
  { [file |-> [present |-> TRUE, vars |-> [AllSet EXCEPT !["NOTION_DATABASE_ID"] = UNSET]],
     env |-> [AllUnset EXCEPT !["NOTION_DATABASE_ID"] = ConfiguredDb]],
    [file |-> [present |-> TRUE, vars |-> [AllSet EXCEPT !["NOTION_API_KEY"] = ""]], env |-> AllUnset],
    [file |-> [present |-> FALSE, vars |-> AllUnset], env |-> AllSet] }

\* every .env file and process environment
AllConfigs ==
  { [file |-> [present |-> pr, vars |-> f], env |-> e] :
      pr \in BOOLEAN, f \in Envs, e \in Envs }

Init ==
  /\ \E c \in RunConfigs : dotenv = c.file /\ procEnv = c.env
  /\ notion \in Workspaces
  /\ InitRest

Next ==
  \/ LoadConfig
  \/ EnsureDatabase
  \/ NewMapsClient
  \/ NextPlaceType
  \/ FetchPage
  \/ ProcessPlace
  \/ NextPage

Spec == Init /\ [][Next]_vars

\* the single thread of main always takes its next step
FairSpec == Spec /\ WF_vars(Next)

\* startup alone, from every configuration
InitConfig ==
  /\ \E c \in AllConfigs : dotenv = c.file /\ procEnv = c.env
  /\ notion \in Workspaces
  /\ InitRest

NextConfig == LoadConfig

SpecConfig == InitConfig /\ [][NextConfig]_vars

(* ------------------------------ properties ------------------------------ *)

UniquePlaceIDs(pages) ==
  \A i, j \in 1..Len(pages) : pages[i].PlaceID = pages[j].PlaceID => i = j

\* the place summary the inner loop is at
CurrentPlace == places.Results[placeIdx]

\* the pages of the client's database that carry the PlaceID of the current place
CurrentMatches == QueryResults(notion[nc.databaseID].pages, CurrentPlace.PlaceID)

\* the step being taken is an iteration of the inner loop that reached InsertBusiness
InsertStep == pc = "places" /\ last'.op = "place" /\ last'.queried

\* C1: every database of the workspace holds at most one page per PlaceID, at
\* every point of every run that starts from a workspace where that is so.
C1_OnePagePerPlaceID == \A d \in DbIds : UniquePlaceIDs(notion[d].pages)

\* C1 witness: a place already stored is returned again, with every known place
\* stored by this run or before it
C1_Witness ==
  /\ last.op = "place" /\ last.queried /\ last.exists
  /\ Len(notion[nc.databaseID].pages) = Cardinality(Places)

\* C2 as stated: InsertBusiness on a business whose PlaceID is on a page of the
\* database issues no page creation, leaves the pages alone and returns no error.
C2_Original ==
  [][(InsertStep /\ Len(CurrentMatches) > 0) =>
       (~last'.createIssued /\ notion' = notion /\ last'.err = Nil)]_vars

\* C2 amended: InsertBusiness on a business whose PlaceID is on a page of the
\* database issues no page creation and leaves the pages alone; it returns no
\* error when the duplicate query succeeds (and then reports the match), and
\* the query's error when the query fails.
C2_DuplicateIsSkipped ==
  [][(InsertStep /\ Len(CurrentMatches) > 0) =>
       /\ ~last'.createIssued
       /\ notion' = notion
       /\ last'.err = last'.queryErr
       /\ (last'.queryErr = Nil => last'.exists)]_vars

\* C2 witness: an insert of a stored PlaceID that was skipped without error
C2_Witness ==
  /\ last.op = "place" /\ last.queried /\ last.queryErr = Nil /\ last.exists
  /\ ~last.createIssued /\ last.err = Nil
  /\ Len(QueryResults(notion[last.target].pages, last.place)) = 1

\* pagination of the current place type: each later request carries the token
\* the page before it returned, and only the last token returned can be empty
C3_TokenChain ==
  /\ Len(tokens) <= pageCount
  /\ \A i \in 1..Len(tokens) - 1 : tokens[i] # ""
  /\ (pc = "fetch" /\ pageCount = 0) => (tokens = <<>> /\ req.PageToken = "")
  /\ (pc = "fetch" /\ pageCount > 0) =>
       (Len(tokens) = pageCount /\ tokens[pageCount] # ""
        /\ req.PageToken = tokens[pageCount])
  /\ last.op = "nomore" =>
       (Len(tokens) = pageCount /\ tokens[pageCount] = "")
  /\ (last.op = "nomore" /\ tokens = <<"A", "">>) => pageCount = 2

\* C3: after a fetched page another page of the same place type is requested
\* if and only if the page returned a non-empty token (and with that token);
\* a provider answering "A" then "" is asked for exactly two pages; and the
\* pagination of every place type ends once the provider returns an empty token.
C3_PaginationHalts ==
  /\ [][pc = "token" =>
          IF places.NextPageToken # ""
          THEN pc' = "fetch" /\ typeIdx' = typeIdx
               /\ req' = [req EXCEPT !.PageToken = places.NextPageToken]
          ELSE pc' = "type" /\ typeIdx' = typeIdx + 1]_vars
  /\ []C3_TokenChain
  /\ (pc \in {"fetch", "places", "token"}) ~> (pc = "type")

\* C3 witness: a place type whose two pages returned "A" and then ""
C3_Witness == last.op = "nomore" /\ tokens = <<"A", "">> /\ pageCount = 2

\* C4: a failed nearby search ends the pagination of its place type (no retry,
\* no place processed, nothing written), the place types are gone through in
\* order and never again, and every place type of the list, also after a
\* failure, starts with a request for its first page without a token.
C4_SearchFailureSkipsType ==
  [][/\ (pc = "fetch" /\ last'.op = "search" /\ last'.err = Err) =>
          (pc' = "type" /\ typeIdx' = typeIdx + 1 /\ notion' = notion
           /\ places' = places /\ placeIdx' = placeIdx)
     /\ typeIdx' >= typeIdx
     /\ pc' = "fetch" => (typeIdx' = typeIdx /\ req'.Type = placeTypes[typeIdx])
     /\ pc = "type" =>
          IF typeIdx <= Len(placeTypes)
          THEN pc' = "fetch" /\ pageCount' = 0
               /\ req' = [Type |-> placeTypes[typeIdx], PageToken |-> ""]
          ELSE pc' = "done"]_vars

\* C4 witness: the second page of the first place type failed, the request
\* still holding the token of that page, and a further place type remains
C4_Witness ==
  /\ last.op = "search" /\ last.err = Err
  /\ pc = "type" /\ typeIdx = 2 /\ typeIdx <= Len(placeTypes)
  /\ pageCount = 2 /\ req.PageToken = "A"

\* C5: a failed detail lookup skips its place: no duplicate query, no page
\* creation, nothing written; main does not exit, goes on with the next place
\* of the page if there is one, and otherwise with the token of the page.
C5_DetailsFailureSkipsPlace ==
  [][(pc = "places" /\ last'.op = "place" /\ last'.detailsErr = Err) =>
       /\ ~last'.mapped /\ ~last'.queried /\ ~last'.createIssued
       /\ notion' = notion
       /\ places' = places /\ typeIdx' = typeIdx /\ req' = req
       /\ placeIdx' = placeIdx + 1
       /\ pc' = IF placeIdx < Len(places.Results) THEN "places" ELSE "token"]_vars

\* C5 witness: the lookup of the first place of a page failed and the second
\* place of the page is up next
C5_Witness ==
  /\ last.op = "place" /\ last.detailsErr = Err
  /\ pc = "places" /\ placeIdx = 2 /\ Len(places.Results) >= 2

\* C6 as stated: a failed database creation ends the process by the
\* log.Fatalf of main (exit status 1), before any search, query or insert.
C6_CreateFailureIsFatal ==
  (last.op = "createdb" /\ last.err = Err) =>
     (pc = "fatal" /\ exitMsg = "Failed to create Notion database")

\* the database main.go was configured with (the environment after loading)
ConfiguredId == Getenv(procEnv, "NOTION_DATABASE_ID")

PastDatabaseCheck == pc \notin {"start", "checkdb", "fatal", "panic"}

C7_Targets ==
  /\ (PastDatabaseCheck /\ notion[CreatedDb].exists) => nc.databaseID = CreatedDb
  /\ (PastDatabaseCheck /\ ~notion[CreatedDb].exists) =>
       nc.databaseID = ConfiguredId
  /\ (last.op = "place" /\ last.queried) => last.target = nc.databaseID
  /\ (last.op = "createdb" /\ last.err = Nil) =>
       (nc.databaseID = CreatedDb /\ last.target = CreatedDb)

\* C7: after a successful CreateDatabase the client's identifier is the created
\* database's, every later query and page creation goes to it and none to the
\* configured one; when the existence check succeeds nothing is created and
\* the configured identifier is kept.
C7_CreatedDatabaseAdopted ==
  /\ []C7_Targets
  /\ [][/\ notion[CreatedDb].exists => notion'[ConfiguredDb] = notion[ConfiguredDb]
        /\ (InsertStep /\ last'.createIssued /\ last'.err = Nil) =>
             notion'[nc.databaseID].pages =
               Append(notion[nc.databaseID].pages, PageCreateRequest(last'.business))
        /\ (pc = "checkdb" /\ pc' = "mapsclient" /\ last'.op = "checkdb") =>
             (nc' = nc /\ notion' = notion)]_vars

\* C7 witness: the configured database exists but its lookup failed; a page
\* was created in the database created instead
C7_Witness ==
  /\ notion[ConfiguredDb].exists /\ notion[CreatedDb].exists
  /\ last.op = "place" /\ last.createIssued /\ last.err = Nil
  /\ last.target = CreatedDb /\ Len(notion[CreatedDb].pages) > 0

\* the place summary with a given PlaceID
PlaceOf(id) == CHOOSE p \in Places : p.PlaceID = id

\* C8: the mapped record's status, urgency and URL follow from the emptiness of
\* the website field alone: non-empty gives "Has Website", "Medium" and the
\* website; empty gives "No Website", "High" and the map-search prefix followed
\* by the address.  Urgency is never "Low", Contacted always "Not Contacted".
C8_WebsiteMapping ==
  last.mapped =>
    LET b == last.business
    IN /\ last.website # "" =>
            (b.WebsiteStatus = "Has Website" /\ b.Urgency = "Medium" /\ b.URL = last.website)
       /\ last.website = "" =>
            (b.WebsiteStatus = "No Website" /\ b.Urgency = "High"
             /\ b.URL = MapSearchPrefix \o PlaceOf(last.place).FormattedAddress)
       /\ b.Urgency # "Low"
       /\ b.Contacted = "Not Contacted"

\* C8 witness: a place with an address and no website was mapped and inserted
C8_Witness ==
  /\ last.mapped /\ last.website = "" /\ PlaceOf(last.place).FormattedAddress # ""
  /\ last.createIssued /\ last.err = Nil

\* C9: a place without categories is mapped to the list <<"Other">>, any other
\* place to the provider's list in its order, and the multi-select of the page
\* created for it carries these names in this order.
C9_CategoryMapping ==
  last.mapped =>
    LET b == last.business
        given == PlaceOf(last.place).Types
        pages == notion[last.target].pages
    IN /\ given = <<>> => b.Type = <<"Other">>
       /\ given # <<>> => b.Type = given
       /\ (last.createIssued /\ last.err = Nil) =>
            (/\ Len(pages[Len(pages)].Type) = Len(b.Type)
             /\ \A i \in 1..Len(b.Type) : pages[Len(pages)].Type[i].Name = b.Type[i])

\* C9 witness: a place without categories was inserted
C9_Witness ==
  /\ last.mapped /\ PlaceOf(last.place).Types = <<>>
  /\ last.createIssued /\ last.err = Nil

\* a required variable has a non-empty value in the .env file or in the
\* process environment
Available(k) ==
  \/ Getenv(procEnv, k) # ""
  \/ dotenv.present /\ Getenv(dotenv.vars, k) # ""

\* the value main reads: the process environment's when it holds the variable
\* (even empty), the .env file's otherwise
Effective(k) ==
  IF procEnv[k] # UNSET THEN procEnv[k]
  ELSE IF dotenv.vars[k] # UNSET THEN dotenv.vars[k] ELSE ""

\* C10 as stated: startup exits if and only if one of the three required
\* variables is missing or empty in the .env file and the process environment.
C10_Original ==
  [][pc = "start" =>
       (pc' = "fatal" <=> \E k \in RequiredVars : ~Available(k))]_vars

\* C10 amended: startup exits if and only if the .env file cannot be loaded or
\* one of the three required variables is empty once it is loaded, the process
\* environment's value (even an empty one) taking precedence over the file's;
\* NOTION_PAGE_ID plays no part, and otherwise main goes on to the existence
\* check with the configured identifiers.
C10_StartupExit ==
  [][pc = "start" =>
       /\ pc' = "fatal" <=>
            (~dotenv.present \/ \E k \in RequiredVars : Effective(k) = "")
       /\ pc' # "fatal" =>
            (/\ pc' = "checkdb"
             /\ nc' = [databaseID |-> Effective("NOTION_DATABASE_ID"),
                       pageID |-> Effective("NOTION_PAGE_ID")]
             /\ apiKey' = Effective("GOOGLE_PLACES_API_KEY"))]_vars

\* C10 witness: every required variable is set in the process environment,
\* there is no .env file, and startup exited
C10_Witness ==
  /\ pc = "fatal" /\ exitMsg = "Error loading .env file" /\ ~dotenv.present
  /\ \A k \in RequiredVars : Getenv(procEnv, k) # ""

====
